---- MODULE Spec2Model ----
(***************************************************************************)
(* Model of the assistant bot of src/7.py: the Field validators (Phone,    *)
(* Birthday), Record, AddressBook and the command loop of main().          *)
(*                                                                         *)
(* Strings the code validates or parses (phones, dates) are sequences of   *)
(* one-character strings, so that re.fullmatch and datetime.strptime are   *)
(* modelled by what they do.  A datetime is [y, m, d, tod] where tod is    *)
(* the time of day in ticks (0 = midnight).  A command line is the list of *)
(* tokens that user_input.strip().split() yields.                          *)
(***************************************************************************)
EXTENDS Integers, Sequences, FiniteSets, TLC

VARIABLES book, pc, user_input, call, out, err, today, days

vars == <<book, pc, user_input, call, out, err, today, days>>

(***************************************************************************)
(* Bounds and input domains                                                *)
(***************************************************************************)
MaxPhones == 2

TicksPerDay == 2

PhoneLen == 10

WindowDays == 7

Names == {"Alice", "Bob"}

Digits == {"0", "1", "2", "3", "4", "5", "6", "7", "8", "9"}

DigitVal == [c \in Digits |->
               CASE c = "0" -> 0 [] c = "1" -> 1 [] c = "2" -> 2 [] c = "3" -> 3
                 [] c = "4" -> 4 [] c = "5" -> 5 [] c = "6" -> 6 [] c = "7" -> 7
                 [] c = "8" -> 8 [] c = "9" -> 9]

DigitChar == <<"0", "1", "2", "3", "4", "5", "6", "7", "8", "9">>

P1 == [i \in 1..PhoneLen |-> "1"]

P2 == [i \in 1..PhoneLen |-> "2"]

PShort == <<"1", "2", "3">>

PLong == [i \in 1..(PhoneLen + 1) |-> "1"]

PAlpha == [i \in 1..PhoneLen |-> IF i = PhoneLen THEN "a" ELSE "1"]

GoodPhones == {P1, P2}

PhoneInputs == {P1, P2, PShort, PLong, PAlpha}

D_15_06_1990 == <<"1", "5", ".", "0", "6", ".", "1", "9", "9", "0">>

D_29_02_2000 == <<"2", "9", ".", "0", "2", ".", "2", "0", "0", "0">>

D_31_02_1990 == <<"3", "1", ".", "0", "2", ".", "1", "9", "9", "0">>

D_ISO == <<"1", "9", "9", "0", "-", "0", "6", "-", "1", "5">>

DateInputs == {D_15_06_1990, D_29_02_2000, D_31_02_1990, D_ISO}

RefDates == { [y |-> 2024, m |-> 6, d |-> 7],  [y |-> 2024, m |-> 6, d |-> 8],
              [y |-> 2024, m |-> 6, d |-> 10], [y |-> 2024, m |-> 6, d |-> 15],
              [y |-> 2024, m |-> 6, d |-> 20], [y |-> 2023, m |-> 6, d |-> 8],
              [y |-> 2024, m |-> 3, d |-> 1] }

Moments == { [y |-> r.y, m |-> r.m, d |-> r.d, tod |-> t] :
               r \in RefDates, t \in 0..(TicksPerDay - 1) }

NoMoment == [y |-> 0, m |-> 0, d |-> 0, tod |-> 0]

(***************************************************************************)
(* Messages                                                                *)
(***************************************************************************)
NoErr == "None"

PhoneMsg == "Phone number must be exactly 10 digits."

DateMsg == "Invalid date format. Use DD.MM.YYYY"

PhoneNotFoundMsg == "Phone number not found."

OldPhoneNotFoundMsg == "Old phone number not found."

RecordNotFoundMsg == "Record not found."

DayRangeMsg == "day is out of range for month"

IndexErrorMsg == "list index out of range"

NoBirthday == [y |-> 0, m |-> 0, d |-> 0, tod |-> 0]

NoVal == -1

Printed(msg) == [msg |-> msg, phones |-> <<>>, entries |-> <<>>, text |-> <<>>]

Nothing == Printed("")

(***************************************************************************)
(* Phone (src/7.py:16-28)                                                  *)
(***************************************************************************)
\* re.match in place of re.fullmatch: a prefix of ten digits is enough
re_match_d10(value) ==
    /\ Len(value) >= PhoneLen
    /\ \A i \in 1..PhoneLen : value[i] \in Digits

\* re.fullmatch(r'\d{10}', value)
re_fullmatch_d10(value) ==
    /\ Len(value) = PhoneLen
    /\ \A i \in 1..Len(value) : value[i] \in Digits

\* Phone.set_phone on a phone whose current value is cur
set_phone(cur, value) ==
    IF re_fullmatch_d10(value)
    THEN [value |-> value, raised |-> NoErr]
    ELSE [value |-> cur, raised |-> PhoneMsg]

(***************************************************************************)
(* Calendar arithmetic of datetime                                         *)
(***************************************************************************)
IsLeap(y) == (y % 4 = 0) /\ ((y % 100 # 0) \/ (y % 400 = 0))

DaysInMonth(y, m) ==
    IF m = 2 THEN (IF IsLeap(y) THEN 29 ELSE 28)
    ELSE IF m \in {4, 6, 9, 11} THEN 30 ELSE 31

\* days before the first of month m in a common year
DAYS_BEFORE_MONTH == <<0, 31, 59, 90, 120, 151, 181, 212, 243, 273, 304, 334>>

DaysBeforeMonth(y, m) ==
    DAYS_BEFORE_MONTH[m] + (IF m > 2 /\ IsLeap(y) THEN 1 ELSE 0)

DaysBeforeYear(y) ==
    (y - 1) * 365 + ((y - 1) \div 4) - ((y - 1) \div 100) + ((y - 1) \div 400)

\* date.toordinal()
ToOrdinal(dt) == DaysBeforeYear(dt.y) + DaysBeforeMonth(dt.y, dt.m) + dt.d

IsValidDate(y, m, d) ==
    /\ y >= 1 /\ y <= 9999
    /\ m >= 1 /\ m <= 12
    /\ d >= 1 /\ d <= DaysInMonth(y, m)

\* position on the time line, in ticks
Ticks(dt) == ToOrdinal(dt) * TicksPerDay + dt.tod

\* datetime.replace(year=...)
replace_year(dt, year) ==
    IF IsValidDate(year, dt.m, dt.d)
    THEN [dt |-> [dt EXCEPT !.y = year], raised |-> NoErr]
    ELSE [dt |-> dt, raised |-> DayRangeMsg]

(***************************************************************************)
(* Birthday (src/7.py:30-38)                                               *)
(***************************************************************************)
DotPositions(s) == {i \in 1..Len(s) : s[i] = "."}

AllDigits(s) == \A i \in 1..Len(s) : s[i] \in Digits

RECURSIVE ToInt(_)
ToInt(s) ==
    IF Len(s) = 0 THEN 0
    ELSE 10 * ToInt(SubSeq(s, 1, Len(s) - 1)) + DigitVal[s[Len(s)]]

Min(S) == CHOOSE x \in S : \A z \in S : x <= z

Max(S) == CHOOSE x \in S : \A z \in S : x >= z

\* datetime.strptime(value, "%d.%m.%Y")
strptime(value) ==
    LET dots == DotPositions(value)
    IN  IF Cardinality(dots) # 2
        THEN [dt |-> NoBirthday, raised |-> DateMsg]
        ELSE
          LET i1 == Min(dots)
              i2 == Max(dots)
              fd == SubSeq(value, 1, i1 - 1)
              fm == SubSeq(value, i1 + 1, i2 - 1)
              fy == SubSeq(value, i2 + 1, Len(value))
              shape == /\ Len(fd) \in {1, 2} /\ AllDigits(fd)
                       /\ Len(fm) \in {1, 2} /\ AllDigits(fm)
                       /\ Len(fy) = 4 /\ AllDigits(fy)
          IN  IF shape /\ ToInt(fd) \in 1..31 /\ ToInt(fm) \in 1..12
                       /\ IsValidDate(ToInt(fy), ToInt(fm), ToInt(fd))
              THEN [dt |-> [y |-> ToInt(fy), m |-> ToInt(fm), d |-> ToInt(fd), tod |-> 0],
                    raised |-> NoErr]
              ELSE [dt |-> NoBirthday, raised |-> DateMsg]

\* Birthday.__init__, on the inputs of the model (evaluated once)
Birthday == [value \in DateInputs |-> strptime(value)]

Pad(n, w) == [i \in 1..w |-> DigitChar[((n \div (10 ^ (w - i))) % 10) + 1]]

\* Birthday.__str__ / strftime("%d.%m.%Y")
strftime(dt) == Pad(dt.d, 2) \o <<".">> \o Pad(dt.m, 2) \o <<".">> \o Pad(dt.y, 4)

(***************************************************************************)
(* Record (src/7.py:40-78)                                                 *)
(***************************************************************************)
Record(name) == [name |-> name, phones |-> <<>>, birthday |-> NoBirthday]

HasBirthday(rec) == rec.birthday # NoBirthday

\* insert(0, ...) in place of append
add_phone_front(rec, phone) ==
    LET p == set_phone(<<>>, phone)
    IN  IF p.raised = NoErr
        THEN [rec |-> [rec EXCEPT !.phones = <<p.value>> \o @], raised |-> NoErr]
        ELSE [rec |-> rec, raised |-> p.raised]

\* Record.add_phone
add_phone(rec, phone) ==
    LET p == set_phone(<<>>, phone)
    IN  IF p.raised = NoErr
        THEN [rec |-> [rec EXCEPT !.phones = Append(@, p.value)], raised |-> NoErr]
        ELSE [rec |-> rec, raised |-> p.raised]

FirstIndex(phones, phone) ==
    IF \E i \in 1..Len(phones) : phones[i] = phone
    THEN Min({i \in 1..Len(phones) : phones[i] = phone})
    ELSE 0

RemoveAt(s, i) == SubSeq(s, 1, i - 1) \o SubSeq(s, i + 1, Len(s))

\* Record.remove_phone
remove_phone(rec, phone) ==
    LET i == FirstIndex(rec.phones, phone)
    IN  IF i = 0
        THEN [rec |-> rec, raised |-> PhoneNotFoundMsg]
        ELSE [rec |-> [rec EXCEPT !.phones = RemoveAt(@, i)], raised |-> NoErr]

\* the loop without its return: every phone equal to old_phone is replaced
edit_phone_all(rec, old_phone, new_phone) ==
    IF \A i \in 1..Len(rec.phones) : rec.phones[i] # old_phone
    THEN [rec |-> rec, raised |-> OldPhoneNotFoundMsg]
    ELSE IF ~re_fullmatch_d10(new_phone)
         THEN [rec |-> rec, raised |-> PhoneMsg]
         ELSE [rec |-> [rec EXCEPT !.phones =
                          [i \in 1..Len(rec.phones) |->
                             IF rec.phones[i] = old_phone THEN new_phone ELSE rec.phones[i]]],
               raised |-> NoErr]

\* Record.edit_phone
edit_phone(rec, old_phone, new_phone) ==
    LET i == FirstIndex(rec.phones, old_phone)
    IN  IF i = 0
        THEN [rec |-> rec, raised |-> OldPhoneNotFoundMsg]
        ELSE LET p == set_phone(rec.phones[i], new_phone)
             IN  [rec |-> [rec EXCEPT !.phones[i] = p.value], raised |-> p.raised]

\* the birthday reset before the date is parsed
add_birthday_reset(rec, birthday) ==
    LET b == Birthday[birthday]
    IN  IF b.raised = NoErr
        THEN [rec |-> [rec EXCEPT !.birthday = b.dt], raised |-> NoErr]
        ELSE [rec |-> [rec EXCEPT !.birthday = NoBirthday], raised |-> b.raised]

\* Record.add_birthday
add_birthday(rec, birthday) ==
    LET b == Birthday[birthday]
    IN  IF b.raised = NoErr
        THEN [rec |-> [rec EXCEPT !.birthday = b.dt], raised |-> NoErr]
        ELSE [rec |-> rec, raised |-> b.raised]

\* Record.days_to_birthday, with now the value datetime.today() returns
days_to_birthday(rec, now) ==
    IF ~HasBirthday(rec)
    THEN [val |-> NoVal, raised |-> NoErr]
    ELSE
      LET r1 == replace_year(rec.birthday, now.y)
      IN  IF r1.raised # NoErr
          THEN [val |-> NoVal, raised |-> r1.raised]
          ELSE IF Ticks(r1.dt) < Ticks(now)
               THEN LET r2 == replace_year(r1.dt, now.y + 1)
                    IN  IF r2.raised # NoErr
                        THEN [val |-> NoVal, raised |-> r2.raised]
                        ELSE [val |-> (Ticks(r2.dt) - Ticks(now)) \div TicksPerDay,
                              raised |-> NoErr]
               ELSE [val |-> (Ticks(r1.dt) - Ticks(now)) \div TicksPerDay,
                     raised |-> NoErr]

(***************************************************************************)
(* AddressBook (src/7.py:80-107): the dict, as the list of its records in  *)
(* insertion order                                                         *)
(***************************************************************************)
Keys(data) == {data[i].name : i \in 1..Len(data)}

IndexOf(data, name) == CHOOSE i \in 1..Len(data) : data[i].name = name

\* book.data[name]
Get(data, name) == data[IndexOf(data, name)]

\* book.data[name] mutated in place
Put(data, name, rec) == [data EXCEPT ![IndexOf(data, name)] = rec]

\* AddressBook.add_record
add_record(data, rec) ==
    IF rec.name \in Keys(data) THEN Put(data, rec.name, rec) ELSE Append(data, rec)

\* self.data.pop(name, None): an absent name is not reported
delete_silent(data, name) ==
    IF name \in Keys(data)
    THEN [data |-> RemoveAt(data, IndexOf(data, name)), raised |-> NoErr]
    ELSE [data |-> data, raised |-> NoErr]

\* AddressBook.delete
delete(data, name) ==
    IF name \in Keys(data)
    THEN [data |-> RemoveAt(data, IndexOf(data, name)), raised |-> NoErr]
    ELSE [data |-> data, raised |-> RecordNotFoundMsg]

\* AddressBook.get_upcoming_birthdays: the loop over self.data.values(), from
\* record i on; trace is the list of the values the local days has taken
RECURSIVE upcoming_from(_, _, _, _, _)
upcoming_from(data, i, now, upcoming_birthdays, trace) ==
    IF i > Len(data)
    THEN [entries |-> upcoming_birthdays, days |-> trace, raised |-> NoErr]
    ELSE
      LET record == data[i]
      IN  IF ~HasBirthday(record)
          THEN upcoming_from(data, i + 1, now, upcoming_birthdays, trace)
          ELSE
            LET d == days_to_birthday(record, now)
            IN  IF d.raised # NoErr
                THEN [entries |-> <<>>, days |-> trace, raised |-> d.raised]
                ELSE upcoming_from(data, i + 1, now,
                       IF d.val # NoVal /\ d.val <= WindowDays
                       THEN Append(upcoming_birthdays,
                                   [name |-> record.name,
                                    birthday |-> strftime(record.birthday)])
                       ELSE upcoming_birthdays,
                       Append(trace, [name |-> record.name, val |-> d.val]))

get_upcoming_birthdays(data, now) == upcoming_from(data, 1, now, <<>>, <<>>)

(***************************************************************************)
(* The command loop (src/7.py:147-223)                                     *)
(***************************************************************************)
TypeOK ==
    /\ pc \in {"loop", "done", "crashed"}
    /\ Keys(book) \subseteq Names
    /\ Len(book) = Cardinality(Keys(book))
    /\ today \in Moments \cup {NoMoment}

Init ==
    /\ book = <<>>
    /\ pc = "loop"
    /\ user_input = <<>>
    /\ call = <<>>
    /\ out = Printed("Welcome to the assistant bot!")
    /\ err = NoErr
    /\ today = NoMoment
    /\ days = <<>>

\* room left for one more phone in the record of name (model bound)
Room(name) ==
    IF name \in Keys(book) THEN Len(Get(book, name).phones) < MaxPhones ELSE TRUE

\* a line read by input(): its tokens
Read(line) ==
    /\ pc = "loop"
    /\ user_input' = line
    /\ call' = <<>>

\* no clock is read by the handler
NoClock ==
    /\ today' = NoMoment
    /\ days' = <<>>

\* parse_input on a line without tokens: parts[0] raises IndexError
CmdEmpty ==
    /\ Read(<<>>)
    /\ pc' = "crashed"
    /\ err' = IndexErrorMsg
    /\ NoClock
    /\ UNCHANGED <<book, out>>

CmdExit ==
    /\ \E c \in {"close", "exit"} : Read(<<c>>)
    /\ pc' = "done"
    /\ out' = Printed("Good bye!")
    /\ err' = NoErr
    /\ NoClock
    /\ UNCHANGED book

CmdHello ==
    /\ Read(<<"hello">>)
    /\ out' = Printed("How can I help you?")
    /\ err' = NoErr
    /\ NoClock
    /\ UNCHANGED <<book, pc>>

CmdInvalid ==
    /\ Read(<<"foo">>)
    /\ out' = Printed("Invalid command.")
    /\ err' = NoErr
    /\ NoClock
    /\ UNCHANGED <<book, pc>>

AddArgs == {<<"Alice">>} \cup {<<"Alice", p>> : p \in PhoneInputs} \cup {<<"Bob", P1>>}

CmdAdd ==
    \E args \in AddArgs :
      /\ Read(<<"add">> \o args)
      /\ NoClock
      /\ IF Len(args) < 2
         THEN /\ out' = Printed("Please provide both name and phone number.")
              /\ err' = NoErr
              /\ UNCHANGED <<book, pc>>
         ELSE LET name == args[1]
                  phone == args[2]
              IN  /\ Room(name)
                  /\ IF name \in Keys(book)
                     THEN \E r \in {add_phone(Get(book, name), phone)} :
                            /\ book' = Put(book, name, r.rec)
                            /\ err' = r.raised
                            /\ IF r.raised = NoErr
                               THEN /\ out' = Printed("Added phone {phone} to existing contact {name}.")
                                    /\ pc' = pc
                               ELSE /\ out' = out
                                    /\ pc' = "crashed"
                     ELSE \E r \in {add_phone(Record(name), phone)} :
                            /\ err' = r.raised
                            /\ IF r.raised = NoErr
                               THEN /\ book' = add_record(book, r.rec)
                                    /\ out' = Printed("Created new contact {name} with phone {phone}.")
                                    /\ pc' = pc
                               ELSE /\ book' = book
                                    /\ out' = out
                                    /\ pc' = "crashed"

ChangeArgs == {<<"Alice", P1>>} \cup {<<"Alice", p, q>> : p \in GoodPhones, q \in {P2, PAlpha}}

CmdChange ==
    \E args \in ChangeArgs :
      /\ Read(<<"change">> \o args)
      /\ NoClock
      /\ UNCHANGED pc
      /\ IF Len(args) < 3
         THEN /\ out' = Printed("Please provide name, old phone, and new phone.")
              /\ err' = NoErr
              /\ UNCHANGED book
         ELSE LET name == args[1]
              IN  IF name \in Keys(book)
                  THEN \E r \in {edit_phone(Get(book, name), args[2], args[3])} :
                         /\ book' = Put(book, name, r.rec)
                         /\ err' = r.raised
                         /\ out' = IF r.raised = NoErr
                                   THEN Printed("Changed phone {old_phone} to {new_phone} for contact {name}.")
                                   ELSE Printed("Phone number {old_phone} not found for contact {name}.")
                  ELSE /\ out' = Printed("No contact found with name {name}.")
                       /\ err' = NoErr
                       /\ UNCHANGED book

CmdPhone ==
    \E args \in {<<>>} \cup {<<n>> : n \in Names} :
      /\ Read(<<"phone">> \o args)
      /\ NoClock
      /\ err' = NoErr
      /\ UNCHANGED <<book, pc>>
      /\ IF Len(args) < 1
         THEN out' = Printed("Please provide a name.")
         ELSE IF args[1] \in Keys(book)
              THEN out' = [Printed("{name}'s phone numbers: {phones}.")
                             EXCEPT !.phones = Get(book, args[1]).phones]
              ELSE out' = Printed("No contact found with name {name}.")

CmdAll ==
    /\ Read(<<"all">>)
    /\ NoClock
    /\ err' = NoErr
    /\ UNCHANGED <<book, pc>>
    /\ out' = IF book = <<>> THEN Printed("No contacts found.") ELSE Printed("{book}")

BirthdayArgs == {<<"Alice">>} \cup {<<"Alice", b>> : b \in DateInputs} \cup {<<"Bob", D_29_02_2000>>}

\* "add-birthday": the handler add_birthday under @input_error
CmdAddBirthday ==
    \E args \in BirthdayArgs :
      /\ Read(<<"add-birthday">> \o args)
      /\ NoClock
      /\ UNCHANGED pc
      /\ IF Len(args) < 2
         THEN /\ out' = Printed("Please provide both name and birthday.")
              /\ err' = NoErr
              /\ UNCHANGED book
         ELSE LET name == args[1]
              IN  IF name \in Keys(book)
                  THEN \E r \in {add_birthday(Get(book, name), args[2])} :
                         /\ book' = Put(book, name, r.rec)
                         /\ err' = r.raised
                         /\ out' = IF r.raised = NoErr
                                   THEN Printed("Birthday {birthday} added for {name}.")
                                   ELSE Printed(r.raised)
                  ELSE /\ out' = Printed("No contact found with name {name}.")
                       /\ err' = NoErr
                       /\ UNCHANGED book

\* "show-birthday": the handler show_birthday under @input_error
CmdShowBirthday ==
    \E args \in {<<>>} \cup {<<n>> : n \in Names} :
      /\ Read(<<"show-birthday">> \o args)
      /\ NoClock
      /\ err' = NoErr
      /\ UNCHANGED <<book, pc>>
      /\ IF Len(args) < 1
         THEN out' = Printed("Please provide a name.")
         ELSE IF args[1] \in Keys(book) /\ HasBirthday(Get(book, args[1]))
              THEN out' = [Printed("{name}'s birthday is on {birthday}.")
                             EXCEPT !.text = strftime(Get(book, args[1]).birthday)]
              ELSE out' = Printed("No birthday found for {name}.")

\* "birthdays": the handler birthdays under @input_error; now is what
\* datetime.today() returns
CmdBirthdays ==
    \E now \in Moments :
      /\ Read(<<"birthdays">>)
      /\ today' = now
      /\ UNCHANGED <<book, pc>>
      /\ \E u \in {get_upcoming_birthdays(book, now)} :
           /\ err' = u.raised
           /\ days' = u.days
           /\ out' = IF u.raised # NoErr THEN Printed(u.raised)
                     ELSE IF u.entries # <<>>
                          THEN [Printed("{name} has a birthday on {birthday}.")
                                  EXCEPT !.entries = u.entries]
                          ELSE Printed("No upcoming birthdays in the next 7 days.")

Next ==
    \/ CmdEmpty
    \/ CmdExit
    \/ CmdHello
    \/ CmdInvalid
    \/ CmdAdd
    \/ CmdChange
    \/ CmdPhone
    \/ CmdAll
    \/ CmdAddBirthday
    \/ CmdShowBirthday
    \/ CmdBirthdays

Spec == Init /\ [][Next]_vars

(***************************************************************************)
(* The classes driven through their public methods, next to the commands:  *)
(* AddressBook.delete and Record.remove_phone have no command of their     *)
(* own.  call is the method called with its arguments, err the exception   *)
(* it raised.                                                              *)
(***************************************************************************)
Called(c) ==
    /\ pc = "loop"
    /\ call' = c
    /\ user_input' = <<>>
    /\ out' = Nothing
    /\ NoClock
    /\ UNCHANGED pc

LibDelete ==
    \E name \in Names :
      /\ Called(<<"delete", name>>)
      /\ \E r \in {delete(book, name)} :
           /\ book' = r.data
           /\ err' = r.raised

LibRemovePhone ==
    \E name \in Keys(book), phone \in GoodPhones :
      /\ Called(<<"remove_phone", name, phone>>)
      /\ \E r \in {remove_phone(Get(book, name), phone)} :
           /\ book' = Put(book, name, r.rec)
           /\ err' = r.raised

LibNext ==
    \/ Next
    \/ LibDelete
    \/ LibRemovePhone

LibSpec == Init /\ [][LibNext]_vars

(***************************************************************************)
(* Properties                                                              *)
(***************************************************************************)
TenDigits(p) == Len(p) = 10 /\ \A i \in 1..Len(p) : p[i] \in Digits

\* the step reads a line whose command is c
IsCmd(c) == call' = <<>> /\ Len(user_input') > 0 /\ user_input'[1] = c

\* the last line read had command c
WasCmd(c) == call = <<>> /\ Len(user_input) > 0 /\ user_input[1] = c

Others(data, data2, n) ==
    \A m \in Names \ {n} :
      /\ m \in Keys(data2) <=> m \in Keys(data)
      /\ m \in Keys(data) => Get(data2, m) = Get(data, m)

DomainMsgs == {PhoneMsg, DateMsg, PhoneNotFoundMsg, OldPhoneNotFoundMsg, RecordNotFoundMsg}

\* C1: a domain error (malformed phone or date, missing contact or phone)
\* never ends the loop: after it the loop is still reading commands; the
\* loop finishes only on "close" or "exit".
C1_DomainErrorNeverEndsLoop ==
    /\ err \in DomainMsgs => pc = "loop"
    /\ pc = "done" => (WasCmd("close") \/ WasCmd("exit"))

C2_Step ==
    (IsCmd("add") /\ Len(user_input') >= 3 /\ TenDigits(user_input'[3])) =>
      LET n == user_input'[2]
          p == user_input'[3]
      IN  /\ n \in Keys(book')
          /\ Get(book', n).phones =
               IF n \in Keys(book) THEN Append(Get(book, n).phones, p) ELSE <<p>>
          /\ Get(book', n).birthday =
               IF n \in Keys(book) THEN Get(book, n).birthday ELSE NoBirthday
          /\ Others(book, book', n)

\* C2: "add" with a valid phone creates a record with exactly that phone
\* when the name is new, and otherwise appends the phone at the end of the
\* record's list, keeping its earlier phones and its birthday; no other
\* record changes.
C2_AddCreatesOrAppends == [][C2_Step]_vars

\* a second phone was added to Alice's record, which has a birthday, while
\* Bob's record exists
C2_Witness ==
    /\ WasCmd("add") /\ user_input = <<"add", "Alice", P2>>
    /\ Keys(book) = {"Alice", "Bob"}
    /\ Get(book, "Alice").phones = <<P1, P2>>
    /\ HasBirthday(Get(book, "Alice"))

\* the whole calendar days from the date of ref to the next bday.m/bday.d
CalendarDays(bday, ref) ==
    LET refday == ToOrdinal(ref)
        this == ToOrdinal([y |-> ref.y, m |-> bday.m, d |-> bday.d])
        next == ToOrdinal([y |-> ref.y + 1, m |-> bday.m, d |-> bday.d])
    IN  IF this < refday THEN next - refday ELSE this - refday

IsFeb29(bday) == bday.m = 2 /\ bday.d = 29

\* C3: DaysToBirthday is the number of whole calendar days from the
\* reference date to the next occurrence of the birthday's month/day (0 on
\* the birthday itself), for every reference moment.
C3_DaysToBirthdayIsCalendarDays ==
    WasCmd("birthdays") =>
      \A k \in 1..Len(days) :
        LET bday == Get(book, days[k].name).birthday
        IN  ~IsFeb29(bday) => days[k].val = CalendarDays(bday, today)

\* C4: after "birthdays", a record has an entry iff it has a birthday and
\* its DaysToBirthday value is at most 7.
C4_UpcomingIffWithinWindow ==
    WasCmd("birthdays") =>
      \A i \in 1..Len(book) :
        (\E k \in 1..Len(out.entries) : out.entries[k].name = book[i].name)
          <=> /\ HasBirthday(book[i])
              /\ days_to_birthday(book[i], today).raised = NoErr
              /\ days_to_birthday(book[i], today).val <= 7

\* C5: every phone stored in every record is a string of exactly 10
\* decimal digits.
C5_StoredPhonesAreTenDigits ==
    \A i \in 1..Len(book) :
      \A j \in 1..Len(book[i].phones) : TenDigits(book[i].phones[j])

\* a malformed phone was rejected by an edit and the record kept its phones
C5_Witness ==
    /\ pc = "loop" /\ err = PhoneMsg
    /\ "Alice" \in Keys(book) /\ Len(Get(book, "Alice").phones) = 2

C6_Step ==
    (IsCmd("change") /\ Len(user_input') >= 4 /\ user_input'[2] \in Keys(book)) =>
      LET n == user_input'[2]
          old == user_input'[3]
          new == user_input'[4]
          before == Get(book, n).phones
          after == Get(book', n).phones
          hits == {i \in 1..Len(before) : before[i] = old}
      IN  IF hits = {}
          THEN err' = OldPhoneNotFoundMsg /\ after = before
          ELSE IF ~TenDigits(new)
               THEN err' = PhoneMsg /\ after = before
               ELSE /\ err' = NoErr
                    /\ Len(after) = Len(before)
                    /\ \A i \in 1..Len(before) :
                         after[i] = IF i = Min(hits) THEN new ELSE before[i]

\* C6: EditPhone replaces exactly the first phone equal to old, in place;
\* an absent old fails with the not-found error and a malformed new with the
\* validation error, both leaving the phone list as it was.
C6_EditPhoneFirstMatchOrUnchanged == [][C6_Step]_vars

\* of two equal phones the first one was replaced
C6_Witness ==
    /\ WasCmd("change") /\ user_input = <<"change", "Alice", P1, P2>>
    /\ err = NoErr
    /\ "Alice" \in Keys(book) /\ Get(book, "Alice").phones = <<P2, P1>>

C7_Step ==
    (Len(call') = 2 /\ call'[1] = "delete") =>
      LET n == call'[2]
      IN  IF n \in Keys(book)
          THEN /\ err' = NoErr
               /\ n \notin Keys(book')
               /\ Len(book') = Len(book) - 1
               /\ Others(book, book', n)
          ELSE /\ err' = RecordNotFoundMsg
               /\ book' = book

\* C7: Delete of an absent name fails with the not-found error and leaves
\* the mapping unchanged; Delete of a key removes exactly that entry.
C7_DeleteExactlyOrFail == [][C7_Step]_vars

\* Delete of an absent name was refused on a book with a record
C7_Witness ==
    /\ call = <<"delete", "Bob">> /\ err = RecordNotFoundMsg
    /\ Keys(book) = {"Alice"}

Needs(c) ==
    CASE c = "add" -> 2
      [] c = "change" -> 3
      [] c = "phone" -> 1
      [] c = "show-birthday" -> 1
      [] c = "add-birthday" -> 2
      [] OTHER -> 0

Malformed(line) == Len(line) = 0 \/ Len(line) - 1 < Needs(line[1])

UsageMsgs == { "Please provide both name and phone number.",
               "Please provide name, old phone, and new phone.",
               "Please provide a name.",
               "Please provide both name and birthday." }

C8_Step ==
    (pc = "loop" /\ call' = <<>> /\ Malformed(user_input')) =>
      /\ book' = book
      /\ out'.msg \in UsageMsgs
      /\ pc' = "loop"

\* C8: a line with fewer arguments than its command needs, down to a line
\* without tokens, gives a usage message, leaves the book unchanged and the
\* loop goes on.
C8_MalformedLineRejected == [][C8_Step]_vars

\* C9: with a 29 February birthday in the book DaysToBirthday fails for no
\* reference date, and "birthdays" completes and reports on every record
\* with a birthday.
C9_Feb29DoesNotFail ==
    WasCmd("birthdays") =>
      /\ err = NoErr
      /\ \A i \in 1..Len(book) :
           HasBirthday(book[i]) => \E k \in 1..Len(days) : days[k].name = book[i].name

C10_Step ==
    \A n \in Names :
      (n \in Keys(book) /\ n \in Keys(book')) =>
        LET b == Get(book, n).birthday
            b2 == Get(book', n).birthday
            adds == IsCmd("add-birthday") /\ Len(user_input') >= 3 /\ user_input'[2] = n
        IN  /\ b # NoBirthday => b2 # NoBirthday
            /\ b2 # NoBirthday => IsValidDate(b2.y, b2.m, b2.d)
            /\ IF adds /\ err' = NoErr
               THEN strftime(b2) = user_input'[3]
               ELSE b2 = b

\* C10: a birthday once set is never cleared; it is a valid calendar date,
\* the argument of the latest successful AddBirthday; a failed AddBirthday
\* and every phone operation leave it unchanged.
C10_BirthdayNeverCleared == [][C10_Step]_vars

\* an impossible date was refused and the earlier birthday is still there
C10_Witness ==
    /\ WasCmd("add-birthday") /\ user_input = <<"add-birthday", "Alice", D_31_02_1990>>
    /\ err = DateMsg
    /\ "Alice" \in Keys(book)
    /\ Get(book, "Alice").birthday = [y |-> 1990, m |-> 6, d |-> 15, tod |-> 0]

====
